---------------------------- MODULE Spec2Model ----------------------------
(***************************************************************************)
(* Model of src/main.py: a bulk tile downloader.  main() plans one fetch   *)
(* task per missing tile of a bounding box over a list of zoom levels,     *)
(* runs the tasks on a ThreadPoolExecutor, counts the completions and      *)
(* finally writes tilemapresource.xml.                                     *)
(*                                                                         *)
(* Angles are integers in units of 1e-4 degree (85.0511 deg = 850511).     *)
(* A path SAVE_PATH/z/x/y.jpg is the tuple <<z, x, y>>, the directory      *)
(* SAVE_PATH/z is <<z>> and SAVE_PATH/z/x is <<z, x>>.                     *)
(***************************************************************************)
EXTENDS Integers, Sequences, FiniteSets, TLC

VARIABLES
    BOUNDS,            \* <<min_lon, min_lat, max_lon, max_lat>>  (main.py:18)
    ZOOM_LEVELS,       \* sequence of zoom levels                 (main.py:14)
    rootExists,        \* os.path.exists(SAVE_PATH)
    dirs,              \* the directories below SAVE_PATH that exist
    files,             \* tile path -> content, for the tile files that exist
    files0,            \* the tile files as they were when the run started
    xml,               \* content of tilemapresource.xml, or NoXml
    pc,                \* position of the main thread
    zi,                \* index into ZOOM_LEVELS of the level being planned
    xi,                \* column being planned
    tasks,             \* the task list of main()
    total_tasks,       \* len(tasks), set once planning is over
    fut,               \* one record per submitted future, in submit order
    consumed,          \* futures already yielded by as_completed
    i,                 \* completions counted by the loop (i + 1 of the code)
    downloaded_count,  \* main.py:137
    nthreads,          \* worker threads the executor has spawned
    idle,              \* the executor's idle semaphore
    prevFailed,        \* tasks of the previous run that ended in a fetch failure
    prevRun,           \* how the previous run ended: see RunSummary
    crashAt,           \* where an exception left main(), or "none"
    probe              \* a direct call of latlon2xy or generate_mercator_xml

vars == <<BOUNDS, ZOOM_LEVELS, rootExists, dirs, files, files0, xml, pc, zi, xi,
          tasks, total_tasks, fut, consumed, i, downloaded_count, nthreads, idle,
          prevFailed, prevRun, crashAt, probe>>

---------------------------------------------------------------------------
(* Bounds of the model *)

\* Size of the worker pool the model runs.  main.py:21 configures 16; the
\* executor's logic does not depend on the value and the model is checked
\* with a small pool so that the pool is saturated by a handful of tasks.
MAX_WORKERS == 2

\* Angles of the sampled boxes, in 1e-4 degree.
Deg(d) == d * 10000

\* The configured box of main.py:18 and three smaller ones.
WorldBox == <<Deg(-180), -850500, Deg(180), 850500>>
WestBox  == <<Deg(-180), -850500, Deg(-10), 850500>>
NorthBox == <<Deg(-180), Deg(45), Deg(180), 850500>>
PoleBox  == <<Deg(-180), Deg(-90), Deg(-10), Deg(-60)>>

\* A box east of the grid: its clamped rectangle is empty at every level.
EastBox  == <<Deg(190), -850500, Deg(200), 850500>>

\* (box, zoom levels) pairs the model runs main() with.
Configs ==
    { <<WestBox,  <<0, 1>> >>,
      <<NorthBox, <<1, 0>> >>,
      <<PoleBox,  <<1>> >>,
      <<WorldBox, <<0>> >>,
      <<EastBox,  <<0, 1>> >> }

\* Tile files that may be on disk before the first run.
PreTiles == { <<0, 0, 0>>, <<1, 0, 1>> }

\* Response bodies of the tile server.
Bytes == {"B1", "B2"}

\* Content of a tile file that is on disk before the first run.
OldBytes == "OLD"

\* Content of a file that was opened for writing and not written.
Empty == ""

\* Outcomes of session.get: an HTTP status, or Raised for an exception
\* (timeout, connection error, retries exhausted).
Raised   == "raised"
Statuses == {"200", "404", "400", "403"}
Outcomes == Statuses \cup {Raised}

NoXml == [written |-> FALSE]

\* No direct call is being made.
NoProbe == [kind |-> "none"]

---------------------------------------------------------------------------
(* Pure functions *)

Max(a, b) == IF a >= b THEN a ELSE b
Min(a, b) == IF a <= b THEN a ELSE b

RECURSIVE Pow2(_)
Pow2(z) == IF z = 0 THEN 1 ELSE 2 * Pow2(z - 1)

\* Mutant: round() in place of int().
PyInt_Round(num, den) == (2 * num + den) \div (2 * den)

\* Python's int() of a float: truncation toward zero.
PyInt(num, den) == IF num >= 0 THEN num \div den ELSE -((-num) \div den)

\* (1 - ln(tan(rad) + 1/cos(rad)) / pi) / 2 of main.py:43-44, as computed
\* in IEEE doubles, scaled by 2^20 and floored, at the sampled latitudes.
MercScale == Pow2(20)
MercQ(lat) ==
    CASE lat =  850511 -> 0
      [] lat =  850500 -> 38
      [] lat =  600000 -> 304506
      [] lat =  450000 -> 377199
      [] lat =  0      -> 524288
      [] lat = -450000 -> 671376
      [] lat = -600000 -> 744069
      [] lat = -850500 -> 1048537
      [] lat = -850511 -> 1048575

\* main.py:40
ClampLat(lat) == Max(-850511, Min(850511, lat))

\* Mutant: the longitude is measured from the east edge.
latlon2xy_Mirrored(lat, lon, z) ==
    LET n     == Pow2(z)
        x_num == (Deg(180) - lon) * n
        y_q   == MercQ(ClampLat(lat)) * n
    IN  <<PyInt(x_num, Deg(360)), PyInt(y_q, MercScale)>>

\* main.py:34-47.  2.0 ** z is a power of two, so the two products are exact
\* and int() sees the exact quotient.  After the clamp tan + 1/cos is positive,
\* so the ValueError branch of main.py:45-46 is never taken.
latlon2xy(lat, lon, z) ==
    LET n     == Pow2(z)
        x_num == (lon + Deg(180)) * n
        y_q   == MercQ(ClampLat(lat)) * n
    IN  <<PyInt(x_num, Deg(360)), PyInt(y_q, MercScale)>>

\* Mutant: x_max is not clamped to the grid.
TileRange_NoClamp(b, z) ==
    LET n_tiles == Pow2(z)
        nw      == latlon2xy(b[4], b[1], z)
        se      == latlon2xy(b[2], b[3], z)
    IN  [x_min   |-> Max(0, nw[1]),
         x_max   |-> se[1],
         y_start |-> Max(0, Min(nw[2], se[2])),
         y_end   |-> Min(n_tiles - 1, Max(nw[2], se[2]))]

\* main.py:105-116: the clamped rectangle of level z.
TileRange(b, z) ==
    LET n_tiles == Pow2(z)
        nw      == latlon2xy(b[4], b[1], z)
        se      == latlon2xy(b[2], b[3], z)
    IN  [x_min   |-> Max(0, nw[1]),
         x_max   |-> Min(n_tiles - 1, se[1]),
         y_start |-> Max(0, Min(nw[2], se[2])),
         y_end   |-> Min(n_tiles - 1, Max(nw[2], se[2]))]

\* Mutant: the flip is taken from 2^z, not from 2^z - 1.
YTms_OffByOne(z, y_google) == Pow2(z) - y_google

\* main.py:126
YTms(z, y_google) == (Pow2(z) - 1) - y_google

\* main.py:24, 51: the query of the request URL.
Url(x, y, z) == [x |-> x, y |-> y, z |-> z]
NoUrl == [x |-> -1, y |-> -1, z |-> -1]

\* main.py:118, 122
ZDir(z) == <<z>>
XDir(z, x) == <<z, x>>

\* Mutant: the file is joined to SAVE_PATH/x instead of SAVE_PATH/z/x.
FilePath_NoZoom(z, x, y_tms) == <<x, y_tms>>

\* main.py:127-128
FilePath(z, x, y_tms) == <<z, x, y_tms>>

\* Mutant: the existence check looks at y_google.jpg, not at y_tms.jpg.
RECURSIVE ColumnTasks_CheckNative(_, _, _, _, _)
ColumnTasks_CheckNative(z, x, y, y_end, present) ==
    IF y > y_end THEN <<>>
    ELSE LET file_path == FilePath(z, x, YTms(z, y))
             rest      == ColumnTasks_CheckNative(z, x, y + 1, y_end, present)
         IN  IF FilePath(z, x, y) \notin present
             THEN <<[x |-> x, y_google |-> y, z |-> z, file_path |-> file_path]>> \o rest
             ELSE rest

\* Mutant: the row loop stops before y_end.
RECURSIVE ColumnTasks_SkipLast(_, _, _, _, _)
ColumnTasks_SkipLast(z, x, y, y_end, present) ==
    IF y >= y_end THEN <<>>
    ELSE LET file_path == FilePath(z, x, YTms(z, y))
             rest      == ColumnTasks_SkipLast(z, x, y + 1, y_end, present)
         IN  IF file_path \notin present
             THEN <<[x |-> x, y_google |-> y, z |-> z, file_path |-> file_path]>> \o rest
             ELSE rest

\* main.py:125-131: the tasks of column x of level z, in loop order, given
\* the files present.
RECURSIVE ColumnTasks(_, _, _, _, _)
ColumnTasks(z, x, y, y_end, present) ==
    IF y > y_end THEN <<>>
    ELSE LET file_path == FilePath(z, x, YTms(z, y))
             rest      == ColumnTasks(z, x, y + 1, y_end, present)
         IN  IF file_path \notin present
             THEN <<[x |-> x, y_google |-> y, z |-> z, file_path |-> file_path]>> \o rest
             ELSE rest

\* Mutant: the level loop stops before max_zoom.
RECURSIVE TileSets_Exclusive(_, _)
TileSets_Exclusive(z, max_zoom) ==
    IF z >= max_zoom THEN <<>> ELSE <<z>> \o TileSets_Exclusive(z + 1, max_zoom)

\* main.py:83-85 and 80: what the descriptor says.
RECURSIVE TileSets(_, _)
TileSets(z, max_zoom) ==
    IF z > max_zoom THEN <<>> ELSE <<z>> \o TileSets(z + 1, max_zoom)

XmlContent(min_zoom, max_zoom, ext) ==
    [written   |-> TRUE,
     extension |-> ext,
     mime      |-> "image/jpeg",
     tilesets  |-> TileSets(min_zoom, max_zoom)]

RECURSIVE SeqMin(_)
SeqMin(s) == IF Len(s) = 1 THEN s[1] ELSE Min(s[1], SeqMin(Tail(s)))
RECURSIVE SeqMax(_)
SeqMax(s) == IF Len(s) = 1 THEN s[1] ELSE Max(s[1], SeqMax(Tail(s)))


---------------------------------------------------------------------------
(* State helpers *)

\* The directories a set of tile files lies in.
DirsOf(paths) == { ZDir(p[1]) : p \in paths } \cup { XDir(p[1], p[2]) : p \in paths }

Present == DOMAIN files

Running == { k \in 1..Len(fut) : fut[k].st \in {"running", "fetched", "opened"} }
Pending == { k \in 1..Len(fut) : fut[k].st = "pending" }
Finished == { k \in 1..Len(fut) : fut[k].st = "finished" }

\* A future as executor.submit creates it (main.py:141).
NewFuture == [st |-> "pending", url |-> NoUrl, outcome |-> "none", content |-> Empty,
              fsfault |-> "none", ret |-> 0, calls |-> 0]

\* An exception that leaves main(): the run is over.
Crash(where) ==
    /\ pc' = "crashed"
    /\ crashAt' = where

\* The return of download_task for future k (main.py:57, 59, 61, 63).
Return(k, value, fault) ==
    /\ fut' = [fut EXCEPT ![k].st = "finished", ![k].ret = value,
                          ![k].fsfault = fault]
    /\ idle' = idle + 1

---------------------------------------------------------------------------
(* Initial states: a configuration and a disk that earlier runs can leave *)

Init ==
    /\ \E c \in Configs : BOUNDS = c[1] /\ ZOOM_LEVELS = c[2]
    /\ rootExists \in BOOLEAN
    /\ \E pre \in SUBSET PreTiles :
          /\ rootExists \/ pre = {}
          /\ files = [p \in pre |-> OldBytes]
          /\ dirs = DirsOf(pre)
    /\ xml = NoXml
    /\ pc = "start"
    /\ zi = 1
    /\ xi = 0
    /\ tasks = <<>>
    /\ total_tasks = 0
    /\ fut = <<>>
    /\ consumed = {}
    /\ i = 0
    /\ downloaded_count = 0
    /\ nthreads = 0
    /\ idle = 0
    /\ prevFailed = {}
    /\ prevRun = "none"
    /\ files0 = files
    /\ crashAt = "none"
    /\ probe = NoProbe

---------------------------------------------------------------------------
(* main(): the planner *)

\* Mutant: the directory is not created.
MakeDirs_Nothing(d) == dirs

\* main.py:119, 123: the directories after os.makedirs(d) has succeeded.
MakeDirs(d) == dirs \cup {d}

\* Mutant: a failure to create SAVE_PATH is swallowed and main() goes on.
MakeRoot_Swallowed ==
    /\ pc = "start"
    /\ UNCHANGED <<probe, BOUNDS, ZOOM_LEVELS, dirs, files, xml, zi, xi, tasks, total_tasks,
                   fut, consumed, i, downloaded_count, nthreads, idle,
                   files0, prevFailed, prevRun, crashAt>>
    /\ pc' = "plan_z"
    /\ IF rootExists
       THEN UNCHANGED rootExists
       ELSE rootExists' \in BOOLEAN

\* main.py:95-96
MakeRoot ==
    /\ pc = "start"
    /\ UNCHANGED <<probe, BOUNDS, ZOOM_LEVELS, dirs, files, xml, zi, xi, tasks, total_tasks,
                   fut, consumed, i, downloaded_count, nthreads, idle,
                   files0, prevFailed, prevRun>>
    /\ IF rootExists
       THEN /\ pc' = "plan_z"
            /\ UNCHANGED <<rootExists, crashAt>>
       ELSE \/ /\ rootExists' = TRUE
               /\ pc' = "plan_z"
               /\ UNCHANGED crashAt
            \/ /\ Crash("root")
               /\ UNCHANGED rootExists

\* main.py:104-119: one iteration of the level loop up to the column loop.
PlanZoom ==
    /\ pc = "plan_z"
    /\ zi <= Len(ZOOM_LEVELS)
    /\ UNCHANGED <<probe, BOUNDS, ZOOM_LEVELS, rootExists, files, xml, tasks, total_tasks,
                   fut, consumed, i, downloaded_count, nthreads, idle,
                   files0, prevFailed, prevRun>>
    /\ LET z == ZOOM_LEVELS[zi]
           r == TileRange(BOUNDS, z)
           enter == /\ IF r.x_min <= r.x_max
                       THEN pc' = "plan_x" /\ xi' = r.x_min /\ zi' = zi
                       ELSE pc' = "plan_z" /\ xi' = xi /\ zi' = zi + 1
                    /\ UNCHANGED crashAt
       IN  IF ZDir(z) \in dirs
           THEN enter /\ UNCHANGED dirs
           ELSE \/ enter /\ dirs' = MakeDirs(ZDir(z))
                \/ Crash("zdir") /\ UNCHANGED <<dirs, zi, xi>>

\* main.py:121-131: one iteration of the column loop.
PlanColumn ==
    /\ pc = "plan_x"
    /\ UNCHANGED <<probe, BOUNDS, ZOOM_LEVELS, rootExists, files, xml, total_tasks,
                   fut, consumed, i, downloaded_count, nthreads, idle,
                   files0, prevFailed, prevRun>>
    /\ LET z == ZOOM_LEVELS[zi]
           r == TileRange(BOUNDS, z)
           column == /\ tasks' = tasks \o ColumnTasks(z, xi, r.y_start, r.y_end, Present)
                     /\ IF xi < r.x_max
                        THEN pc' = "plan_x" /\ xi' = xi + 1 /\ zi' = zi
                        ELSE pc' = "plan_z" /\ xi' = xi /\ zi' = zi + 1
                     /\ UNCHANGED crashAt
       IN  IF XDir(z, xi) \in dirs
           THEN column /\ UNCHANGED dirs
           ELSE \/ column /\ dirs' = MakeDirs(XDir(z, xi))
                \/ Crash("xdir") /\ UNCHANGED <<dirs, zi, xi, tasks>>

\* main.py:133-138
PlanDone ==
    /\ pc = "plan_z"
    /\ zi > Len(ZOOM_LEVELS)
    /\ total_tasks' = Len(tasks)
    /\ pc' = IF Len(tasks) > 0 THEN "submit" ELSE "xml"
    /\ downloaded_count' = IF Len(tasks) > 0 THEN 0 ELSE downloaded_count
    /\ UNCHANGED <<probe, BOUNDS, ZOOM_LEVELS, rootExists, dirs, files, xml, zi, xi, tasks,
                   fut, consumed, i, nthreads, idle, files0, prevFailed, prevRun, crashAt>>

---------------------------------------------------------------------------
(* main(): the executor *)

\* main.py:140-141: executor.submit of the next task.  The executor queues
\* the work item, then takes an idle worker if the semaphore has one and
\* otherwise spawns a thread while fewer than max_workers exist.
Submit ==
    /\ pc = "submit"
    /\ Len(fut) < total_tasks
    /\ fut' = Append(fut, NewFuture)
    /\ IF idle > 0
       THEN idle' = idle - 1 /\ nthreads' = nthreads
       ELSE idle' = idle /\ nthreads' = IF nthreads < MAX_WORKERS THEN nthreads + 1 ELSE nthreads
    /\ pc' = IF Len(fut) + 1 = total_tasks THEN "collect" ELSE "submit"
    /\ UNCHANGED <<probe, BOUNDS, ZOOM_LEVELS, rootExists, dirs, files, xml, zi, xi, tasks,
                   total_tasks, consumed, i, downloaded_count, files0, prevFailed, prevRun,
                   crashAt>>

\* Mutant: a work item is started whether or not a worker thread is free.
CanStart_NoLimit(k) ==
    /\ k \in Pending
    /\ \A j \in Pending : k <= j

\* Mutant: a work item stays in the queue while it runs.
CanStart_NotDequeued(k) ==
    /\ k \in 1..Len(fut)
    /\ fut[k].st \in {"pending", "running"}
    /\ Cardinality(Running) < nthreads

\* A worker thread that waits on the work queue may take the queue's head.
CanStart(k) ==
    /\ k \in Pending
    /\ \A j \in Pending : k <= j
    /\ Cardinality(Running) < nthreads

\* A worker takes the oldest queued work item and calls download_task
\* (main.py:49-51).
StartTask(k) ==
    /\ CanStart(k)
    /\ fut' = [fut EXCEPT ![k].st = "running", ![k].calls = @ + 1,
                          ![k].url = Url(tasks[k].x, tasks[k].y_google, tasks[k].z)]
    /\ UNCHANGED <<probe, BOUNDS, ZOOM_LEVELS, rootExists, dirs, files, xml, pc, zi, xi, tasks,
                   total_tasks, consumed, i, downloaded_count, nthreads, idle,
                   files0, prevFailed, prevRun, crashAt>>

\* Mutant: only 404 is taken for "no such tile".
FetchReturn_Only404(o) == IF o = "404" THEN 0 ELSE -1

\* Mutant: every status that is not 200 is taken for "no such tile".
FetchReturn_AnyStatus(o) == IF o \in Statuses THEN 0 ELSE -1

\* The value download_task returns right after session.get, when it does.
FetchReturn(o) == IF o \in {"404", "400"} THEN 0 ELSE -1

\* main.py:53-54, 58-63: session.get and the branches that return at once.
Fetch(k) ==
    /\ k \in 1..Len(fut)
    /\ fut[k].st = "running"
    /\ \E o \in Outcomes :
          IF o = "200"
          THEN /\ \E b \in Bytes :
                     fut' = [fut EXCEPT ![k].st = "fetched", ![k].outcome = o,
                                        ![k].content = b]
               /\ UNCHANGED idle
          ELSE /\ fut' = [fut EXCEPT ![k].st = "finished", ![k].outcome = o,
                                     ![k].ret = FetchReturn(o)]
               /\ idle' = idle + 1
    /\ UNCHANGED <<probe, BOUNDS, ZOOM_LEVELS, rootExists, dirs, files, xml, pc, zi, xi, tasks,
                   total_tasks, consumed, i, downloaded_count, nthreads,
                   files0, prevFailed, prevRun, crashAt>>

\* What open(file_path, 'wb') leaves on disk when it succeeds.
Opened(path) == [p \in Present \cup {path} |-> IF p = path THEN Empty ELSE files[p]]

\* main.py:55: open(file_path, 'wb') creates or truncates the file, which
\* takes its directory to exist, or raises, which the except clause turns
\* into -1.
OpenFile(k) ==
    /\ k \in 1..Len(fut)
    /\ fut[k].st = "fetched"
    /\ \/ /\ XDir(tasks[k].z, tasks[k].x) \in dirs
          /\ files' = Opened(tasks[k].file_path)
          /\ fut' = [fut EXCEPT ![k].st = "opened"]
          /\ UNCHANGED idle
       \/ /\ Return(k, -1, "open")
          /\ UNCHANGED files
    /\ UNCHANGED <<probe, BOUNDS, ZOOM_LEVELS, rootExists, dirs, xml, pc, zi, xi, tasks,
                   total_tasks, consumed, i, downloaded_count, nthreads,
                   files0, prevFailed, prevRun, crashAt>>

\* Mutant: the body is never written.
Written_Nothing(path, content) == files

\* What f.write(r.content) puts in the file.
Written(path, content) == [files EXCEPT ![path] = content]

\* main.py:56-57: f.write(r.content), the close of the with block, return 1;
\* or an exception of the write, which the except clause turns into -1.
WriteFile(k) ==
    /\ k \in 1..Len(fut)
    /\ fut[k].st = "opened"
    /\ \/ /\ files' = Written(tasks[k].file_path, fut[k].content)
          /\ Return(k, 1, "none")
       \/ /\ Return(k, -1, "write")
          /\ UNCHANGED files
    /\ UNCHANGED <<probe, BOUNDS, ZOOM_LEVELS, rootExists, dirs, xml, pc, zi, xi, tasks,
                   total_tasks, consumed, i, downloaded_count, nthreads,
                   files0, prevFailed, prevRun, crashAt>>

\* The futures as_completed may yield next.
Yieldable == Finished \ consumed

\* Mutant: every result but -1 is counted as a download.
Counted_NotFailed(k) == IF fut[k].ret >= 0 THEN downloaded_count + 1 ELSE downloaded_count

\* main.py:144-145
Counted(k) == IF fut[k].ret = 1 THEN downloaded_count + 1 ELSE downloaded_count

\* main.py:143-150: one iteration of the as_completed loop; after the last
\* one the with block ends (every future is done) and main goes on.
Collect(k) ==
    /\ pc = "collect"
    /\ k \in Yieldable
    /\ consumed' = consumed \cup {k}
    /\ downloaded_count' = Counted(k)
    /\ i' = i + 1
    /\ pc' = IF i + 1 = total_tasks THEN "xml" ELSE "collect"
    /\ UNCHANGED <<probe, BOUNDS, ZOOM_LEVELS, rootExists, dirs, files, xml, zi, xi, tasks,
                   total_tasks, fut, nthreads, idle, files0, prevFailed, prevRun, crashAt>>

---------------------------------------------------------------------------
(* main(): the descriptor *)

\* main.py:154, 65-92: the descriptor is built and written, unless the open
\* raises.
GenerateXml ==
    /\ pc = "xml"
    /\ \/ /\ xml' = XmlContent(SeqMin(ZOOM_LEVELS), SeqMax(ZOOM_LEVELS), "jpg")
          /\ pc' = "done"
          /\ UNCHANGED crashAt
       \/ /\ Crash("xml")
          /\ UNCHANGED xml
    /\ UNCHANGED <<probe, BOUNDS, ZOOM_LEVELS, rootExists, dirs, files, zi, xi, tasks,
                   total_tasks, fut, consumed, i, downloaded_count, nthreads, idle,
                   files0, prevFailed, prevRun>>

---------------------------------------------------------------------------
(* The next run of the program over the same configuration and disk *)

\* The tasks of this run whose fetch failed (main.py:60-63).
FetchFailed ==
    { tasks[k] : k \in { j \in Finished : fut[j].outcome \notin {"200", "404", "400"} } }

\* main() is past the planner and the executor.
Executed == pc \in {"xml", "done"} \/ (pc = "crashed" /\ crashAt = "xml")

\* "empty": the run planned no task; "allok": it ran its whole plan and every
\* task returned 1; "other": anything else.
RunSummary ==
    IF ~Executed THEN "other"
    ELSE IF Len(tasks) = 0 THEN "empty"
    ELSE IF \A k \in 1..Len(tasks) : fut[k].ret = 1 THEN "allok"
    ELSE "other"

NextRun ==
    /\ pc \in {"done", "crashed"}
    /\ prevFailed' = FetchFailed
    /\ prevRun' = RunSummary
    /\ files0' = files
    /\ pc' = "start"
    /\ zi' = 1
    /\ xi' = 0
    /\ tasks' = <<>>
    /\ total_tasks' = 0
    /\ fut' = <<>>
    /\ consumed' = {}
    /\ i' = 0
    /\ downloaded_count' = 0
    /\ nthreads' = 0
    /\ idle' = 0
    /\ crashAt' = "none"
    /\ UNCHANGED <<probe, BOUNDS, ZOOM_LEVELS, rootExists, dirs, files, xml>>

---------------------------------------------------------------------------

Next ==
    \/ MakeRoot
    \/ PlanZoom
    \/ PlanColumn
    \/ PlanDone
    \/ Submit
    \/ \E k \in 1..Len(fut) : StartTask(k)
    \/ \E k \in 1..Len(fut) : Fetch(k)
    \/ \E k \in 1..Len(fut) : OpenFile(k)
    \/ \E k \in 1..Len(fut) : WriteFile(k)
    \/ \E k \in 1..Len(fut) : Collect(k)
    \/ GenerateXml
    \/ NextRun

Spec == Init /\ [][Next]_vars

---------------------------------------------------------------------------
(* The planner alone, over more boxes, level lists and disks *)

PlanConfigs ==
    { <<WorldBox, <<0>> >>,
      <<WorldBox, <<1>> >>,
      <<WorldBox, <<0, 1>> >>,
      <<WorldBox, <<2, 0>> >>,
      <<WestBox,  <<0, 1>> >>,
      <<NorthBox, <<1, 2>> >>,
      <<PoleBox,  <<1>> >>,
      <<EastBox,  <<0, 1>> >> }

PlanPreTiles == { <<0, 0, 0>>, <<1, 0, 1>>, <<1, 1, 0>> }

InitPlan ==
    /\ \E c \in PlanConfigs : BOUNDS = c[1] /\ ZOOM_LEVELS = c[2]
    /\ rootExists \in BOOLEAN
    /\ \E pre \in SUBSET PlanPreTiles :
          /\ rootExists \/ pre = {}
          /\ files = [p \in pre |-> OldBytes]
          /\ dirs = DirsOf(pre)
    /\ xml = NoXml
    /\ pc = "start"
    /\ zi = 1
    /\ xi = 0
    /\ tasks = <<>>
    /\ total_tasks = 0
    /\ fut = <<>>
    /\ consumed = {}
    /\ i = 0
    /\ downloaded_count = 0
    /\ nthreads = 0
    /\ idle = 0
    /\ prevFailed = {}
    /\ prevRun = "none"
    /\ files0 = files
    /\ crashAt = "none"
    /\ probe = NoProbe

NextPlan ==
    \/ MakeRoot
    \/ PlanZoom
    \/ PlanColumn
    \/ PlanDone

SpecPlan == InitPlan /\ [][NextPlan]_vars


---------------------------------------------------------------------------
(* Properties *)

TaskIds == 1..Len(tasks)

\* Planning is over: the task list is final.
Planned == pc \in {"submit", "collect", "xml", "done"} \/ (pc = "crashed" /\ crashAt = "xml")

\* The as_completed loop of a run that had tasks is over.
LoopOver == Executed /\ total_tasks > 0

Succeeded == { k \in TaskIds : k \in Finished /\ fut[k].ret = 1 }

\* C1: no two tasks of one plan have the same destination path, so no two
\* download_task executions of a run write to the same file.
C1_DistinctDestinations ==
    /\ \A j, k \in TaskIds : j # k => tasks[j].file_path # tasks[k].file_path
    /\ \A j, k \in Running : j # k => tasks[j].file_path # tasks[k].file_path

\* Two tasks of two zoom levels have their files open for writing at once.
C1_Witness ==
    \E j, k \in Running :
        /\ j # k
        /\ fut[j].st = "opened" /\ fut[k].st = "opened"
        /\ tasks[j].z # tasks[k].z

\* C2: when the as_completed loop is over, the completions counted equal
\* len(tasks), each future was counted once, and downloaded_count is the
\* number of tasks that returned 1.
C2_CountsExact ==
    /\ i = Cardinality(consumed)
    /\ LoopOver =>
          /\ i = Len(tasks)
          /\ consumed = TaskIds
          /\ downloaded_count = Cardinality(Succeeded)

\* The loop is over after tasks that returned 1, 0 and -1.
C2_Witness ==
    /\ LoopOver
    /\ \E j, k, l \in TaskIds : fut[j].ret = 1 /\ fut[k].ret = 0 /\ fut[l].ret = -1

\* C3: download_task is called at most once per task at any time, and exactly
\* once per task of the list when the executor is done, whatever the outcomes.
C3_CalledOnce ==
    /\ Len(fut) <= Len(tasks)
    /\ \A k \in 1..Len(fut) : fut[k].calls <= 1
    /\ LoopOver => /\ Len(fut) = Len(tasks)
                   /\ \A k \in TaskIds : fut[k].calls = 1

\* The executor is done with three tasks, one of which failed.
C3_Witness ==
    /\ LoopOver
    /\ Len(tasks) = 3
    /\ \E k \in TaskIds : fut[k].ret = -1

NotFound(k) == k \in Finished /\ fut[k].outcome \in {"404", "400"}

\* C4: a task answered 404 or 400 returns 0 and leaves no file at its
\* destination; when every task was answered so, no task is counted as a
\* download, all are counted as completions and the tile files are those
\* the run started with.
C4_NotFoundWritesNothing ==
    /\ \A k \in TaskIds : NotFound(k) =>
          /\ fut[k].ret = 0
          /\ tasks[k].file_path \notin Present
    /\ (LoopOver /\ \A k \in TaskIds : NotFound(k)) =>
          /\ downloaded_count = 0
          /\ i = Len(tasks)
          /\ files = files0

\* Every one of three tasks was answered 404 or 400, with both statuses seen.
C4_Witness ==
    /\ LoopOver
    /\ Len(tasks) = 3
    /\ \A k \in TaskIds : NotFound(k)
    /\ \E j, k \in TaskIds : fut[j].outcome = "404" /\ fut[k].outcome = "400"

\* Every task was answered 200 with the body b.
AllAnswered(b) ==
    \A k \in TaskIds : k \in Finished /\ fut[k].outcome = "200" /\ fut[k].content = b

AllWrittenWith(b) ==
    /\ \A k \in TaskIds : tasks[k].file_path \in Present /\ files[tasks[k].file_path] = b
    /\ downloaded_count = Len(tasks)

NoFsFault == \A k \in TaskIds : fut[k].fsfault = "none"

FetchFailure(k) == k \in Finished /\ fut[k].outcome \notin {"200", "404", "400"}

\* C6: a task whose fetch ends with another status or raises returns -1 and
\* has no file at its destination, and the planner of the next run emits it
\* again.
C6_FailedIsPlannedAgain ==
    /\ \A k \in TaskIds : FetchFailure(k) =>
          /\ fut[k].ret = -1
          /\ tasks[k].file_path \notin Present
    /\ prevFailed # {} => crashAt \notin {"root", "zdir", "xdir"}
    /\ Planned => \A t \in prevFailed : \E k \in TaskIds : tasks[k] = t

\* The plan of a run holds a task that failed with 403 or an exception in
\* the run before.
C6_Witness ==
    /\ Planned
    /\ Cardinality(prevFailed) >= 2

\* C7: after a run whose tasks all succeeded, the next planning pass over
\* the same box, levels and disk emits no task.
C7_SecondPlanEmpty ==
    (Planned /\ prevRun \in {"allok", "empty"}) => tasks = <<>>

\* The planner has run again after a run that downloaded every task.
C7_Witness ==
    /\ Planned
    /\ prevRun = "allok"
    /\ Len(ZOOM_LEVELS) = 2

\* C8 as stated: a failure to create a level or column directory never ends
\* the run.
C8_DirFaultNeverAborts ==
    ~(pc = "crashed" /\ crashAt \in {"zdir", "xdir"})

\* C9 as stated: a run whose root directory exists or could be created ends
\* with the descriptor written.
C9_DescriptorAlwaysWritten ==
    (pc \in {"done", "crashed"} /\ crashAt # "root") => xml.written

\* C10: the download_task calls in flight never exceed the pool size.
C10_InFlightBounded ==
    /\ Cardinality(Running) <= MAX_WORKERS
    /\ nthreads <= MAX_WORKERS

\* The pool is saturated while a task waits in the queue.
C10_Witness ==
    /\ Cardinality(Running) = MAX_WORKERS
    /\ Pending # {}

---------------------------------------------------------------------------
(* latlon2xy and generate_mercator_xml called on their own *)

\* Largest zoom level of a direct call.
MaxProbeZoom == 4

\* Latitudes of the direct calls: those of MercQ and two beyond the clamp.
ProbeLats == {Deg(-90), -850511, -850500, Deg(-60), Deg(-45), 0,
              Deg(45), Deg(60), 850500, 850511, Deg(90)}

\* Longitudes of the direct calls: the two ends of [-180, 180], tile edges
\* and their neighbours.
ProbeLons == {Deg(-180), Deg(-180) + 1, Deg(-90), -1, 0, 1, Deg(90),
              Deg(180) - 1, Deg(180)}

Exts == {"jpg", "png"}

ProjectProbes ==
    { [kind |-> "project", done |-> FALSE, lat |-> lat, lon1 |-> lon1, lon2 |-> lon2,
       z |-> z, xy1 |-> <<0, 0>>, xy2 |-> <<0, 0>>] :
         lat \in ProbeLats, lon1 \in ProbeLons, lon2 \in ProbeLons, z \in 0..MaxProbeZoom }

EmitProbes ==
    { [kind |-> "emit", done |-> FALSE, min_zoom |-> lo, max_zoom |-> hi, ext |-> ext] :
         lo \in 0..MaxProbeZoom, hi \in 0..MaxProbeZoom, ext \in Exts }

InitFn ==
    /\ probe \in ProjectProbes \cup { e \in EmitProbes : e.min_zoom <= e.max_zoom }
    /\ BOUNDS = WorldBox
    /\ ZOOM_LEVELS = <<0>>
    /\ rootExists = TRUE
    /\ files = <<>>
    /\ dirs = {}
    /\ xml = NoXml
    /\ pc = "probe"
    /\ zi = 1
    /\ xi = 0
    /\ tasks = <<>>
    /\ total_tasks = 0
    /\ fut = <<>>
    /\ consumed = {}
    /\ i = 0
    /\ downloaded_count = 0
    /\ nthreads = 0
    /\ idle = 0
    /\ prevFailed = {}
    /\ prevRun = "none"
    /\ files0 = files
    /\ crashAt = "none"

\* latlon2xy(lat, lon1, z) and latlon2xy(lat, lon2, z)  (main.py:34-47)
Project ==
    /\ probe.kind = "project"
    /\ ~probe.done
    /\ probe' = [probe EXCEPT !.done = TRUE,
                              !.xy1 = latlon2xy(probe.lat, probe.lon1, probe.z),
                              !.xy2 = latlon2xy(probe.lat, probe.lon2, probe.z)]
    /\ UNCHANGED <<BOUNDS, ZOOM_LEVELS, rootExists, dirs, files, files0, xml, pc, zi, xi,
                   tasks, total_tasks, fut, consumed, i, downloaded_count, nthreads,
                   idle, prevFailed, prevRun, crashAt>>

\* generate_mercator_xml(SAVE_PATH, min_zoom, max_zoom, ext)  (main.py:65-92)
EmitXml ==
    /\ probe.kind = "emit"
    /\ ~probe.done
    /\ xml' = XmlContent(probe.min_zoom, probe.max_zoom, probe.ext)
    /\ probe' = [probe EXCEPT !.done = TRUE]
    /\ UNCHANGED <<BOUNDS, ZOOM_LEVELS, rootExists, dirs, files, files0, pc, zi, xi,
                   tasks, total_tasks, fut, consumed, i, downloaded_count, nthreads,
                   idle, prevFailed, prevRun, crashAt>>

NextFn ==
    \/ Project
    \/ EmitXml

SpecFn == InitFn /\ [][NextFn]_vars

---------------------------------------------------------------------------
(* Properties, continued *)

\* C11: every task has x and y_google on the grid of its level, its request
\* carries x, y_google and z, and its file is z/x/y_tms.jpg with
\* y_tms = (2^z - 1) - y_google on the grid too; flipping y_tms gives
\* y_google back, so the URL and the file name the same tile.
C11_UrlAndFileSameTile ==
    \A k \in TaskIds :
        LET t == tasks[k]
            n == Pow2(t.z)
            y_stored == t.file_path[3]
        IN  /\ 0 <= t.x /\ t.x <= n - 1
            /\ 0 <= t.y_google /\ t.y_google <= n - 1
            /\ t.file_path = <<t.z, t.x, y_stored>>
            /\ y_stored = (n - 1) - t.y_google
            /\ 0 <= y_stored /\ y_stored <= n - 1
            /\ (n - 1) - y_stored = t.y_google
            /\ (k <= Len(fut) /\ fut[k].st # "pending") =>
                  /\ fut[k].url.z = t.file_path[1]
                  /\ fut[k].url.x = t.file_path[2]
                  /\ fut[k].url.y = (n - 1) - y_stored

\* A level-1 tile, whose two y differ, was requested and its file is open.
C11_Witness ==
    \E k \in Running :
        /\ fut[k].st = "opened"
        /\ tasks[k].z = 1
        /\ fut[k].url.y # tasks[k].file_path[3]

\* The planner is done (specification SpecPlan stops here).
PlanOver == pc \in {"submit", "xml"}

\* The (x, y_google) of the tasks of level z, and how many tasks it has.
LevelTiles(z) == { <<tasks[k].x, tasks[k].y_google>> : k \in { j \in TaskIds : tasks[j].z = z } }
LevelCount(z) == Cardinality({ j \in TaskIds : tasks[j].z = z })

HasLevel(z) == \E j \in 1..Len(ZOOM_LEVELS) : ZOOM_LEVELS[j] = z

\* C12: with the configured world box and no tile on disk, level 0 gets
\* exactly the task of tile (0, 0) and level 1 exactly the four tasks of
\* the 2 x 2 grid.
C12_WorldLevels ==
    (PlanOver /\ BOUNDS = WorldBox /\ DOMAIN files0 = {}) =>
        /\ HasLevel(0) => LevelTiles(0) = {<<0, 0>>} /\ LevelCount(0) = 1
        /\ HasLevel(1) => LevelTiles(1) = (0..1) \X (0..1) /\ LevelCount(1) = 4

\* Levels 0 and 1 of the world box were planned on an empty disk.
C12_Witness ==
    /\ PlanOver
    /\ BOUNDS = WorldBox
    /\ DOMAIN files0 = {}
    /\ ZOOM_LEVELS = <<0, 1>>
    /\ Len(tasks) = 5


Projected == probe.kind = "project" /\ probe.done

Emitted == probe.kind = "emit" /\ probe.done

\* C14: the descriptor lists one TileSet per level from min_zoom to max_zoom,
\* ascending, each with order = z, and is determined by (min_zoom, max_zoom,
\* ext) alone.
C14_OneTileSetPerLevel ==
    Emitted =>
        /\ xml.written
        /\ xml.extension = probe.ext
        /\ Len(xml.tilesets) = probe.max_zoom - probe.min_zoom + 1
        /\ \A j \in 1..Len(xml.tilesets) : xml.tilesets[j] = probe.min_zoom + (j - 1)

\* A descriptor of three levels or more, not starting at level 0.
C14_Witness ==
    /\ Emitted
    /\ probe.min_zoom > 0
    /\ probe.max_zoom - probe.min_zoom >= 2

\* The MIME type of an image format.
MimeOf(ext) ==
    CASE ext = "jpg" -> "image/jpeg"
      [] ext = "png" -> "image/png"

\* C15 as stated: the MIME type of the descriptor matches its extension.
C15_MimeMatchesExt ==
    Emitted => xml.mime = MimeOf(xml.extension)


\* C16: when SAVE_PATH does not exist and cannot be created, the run ends
\* before planning: no directory, no task, no fetch and no descriptor; and as
\* long as SAVE_PATH does not exist main() has not gone past its creation.
C16_RootFaultAbortsBeforePlanning ==
    /\ (pc = "crashed" /\ crashAt = "root") => ~rootExists
    /\ ~rootExists =>
          /\ pc \in {"start", "crashed"}
          /\ dirs = {}
          /\ DOMAIN files = {}
          /\ tasks = <<>>
          /\ fut = <<>>
          /\ ~xml.written

\* The creation of SAVE_PATH has raised.
C16_Witness ==
    /\ pc = "crashed"
    /\ crashAt = "root"

\* C17: for a fixed latitude and level, a larger longitude never gets a
\* smaller x.
C17_MonotonicInLon ==
    (Projected /\ probe.lon1 <= probe.lon2) => probe.xy1[1] <= probe.xy2[1]

\* Two longitudes in different columns.
C17_Witness ==
    /\ Projected
    /\ probe.lon1 < probe.lon2
    /\ probe.xy1[1] < probe.xy2[1]

\* The tiles of the clamped rectangle of level z.
Rect(z) ==
    LET r == TileRange(BOUNDS, z)
    IN  (r.x_min..r.x_max) \X (r.y_start..r.y_end)

Levels == { ZOOM_LEVELS[j] : j \in 1..Len(ZOOM_LEVELS) }

\* The tasks of the tiles of the rectangles that were not on disk when the
\* run started.
Missing ==
    { t \in UNION { { [x |-> c[1], y_google |-> c[2], z |-> z,
                       file_path |-> <<z, c[1], (Pow2(z) - 1) - c[2]>>] : c \in Rect(z) } :
                    z \in Levels } :
        t.file_path \notin DOMAIN files0 }

\* C18: the plan holds one task for each tile of the clamped rectangles that
\* has no file on disk and no other task, a level with an empty rectangle
\* gets none, and a tile file that was on disk when the run started is never
\* requested and keeps its content.
C18_PlanIsMissingTiles ==
    /\ Planned =>
          /\ { tasks[k] : k \in TaskIds } = Missing
          /\ Len(tasks) = Cardinality(Missing)
          /\ \A z \in Levels :
                TileRange(BOUNDS, z).x_max < TileRange(BOUNDS, z).x_min =>
                    \A k \in TaskIds : tasks[k].z # z
    /\ \A k \in TaskIds : tasks[k].file_path \notin DOMAIN files0
    /\ \A p \in DOMAIN files0 : p \in Present /\ files[p] = files0[p]

\* A run is over that found one tile of its rectangles on disk and
\* downloaded another.
C18_Witness ==
    /\ LoopOver
    /\ \E z \in Levels : \E c \in Rect(z) :
          <<z, c[1], (Pow2(z) - 1) - c[2]>> \in DOMAIN files0
    /\ \E k \in TaskIds : fut[k].ret = 1

\* C19: the directories of a task exist from the moment the task is in the
\* list, and no task is submitted before planning is over; so they exist
\* whenever download_task opens or writes the file.
C19_DirsBeforeTasks ==
    /\ \A k \in TaskIds :
          /\ rootExists
          /\ ZDir(tasks[k].z) \in dirs
          /\ XDir(tasks[k].z, tasks[k].x) \in dirs
    /\ fut # <<>> => Planned
    /\ Running # {} => pc \in {"submit", "collect"}

\* A file is open for writing in directories this run has created.
C19_Witness ==
    \E k \in Running :
        /\ fut[k].st = "opened"
        /\ XDir(tasks[k].z, tasks[k].x) \notin DirsOf(DOMAIN files0)
        /\ prevRun = "none"

\* C20 as stated: after the executor, a file is at a task's destination only
\* if the task returned 1.
C20_FileOnlyIfSuccess ==
    LoopOver => \A k \in TaskIds : tasks[k].file_path \in Present => fut[k].ret = 1

=============================================================================
